---- MODULE Spec2Model ----
(***************************************************************************)
(* NEODatabase (src/database.py): linking of near-Earth objects with their *)
(* close approaches, lookup by designation and by name, and the lazy       *)
(* query generator.                                                        *)
(*                                                                         *)
(* Encoding.  A Python str is a sequence of one-character strings.  An     *)
(* Optional[str] is <<>> for None and <<s>> for the str s.  An object      *)
(* reference to a NearEarthObject is its position in the list `neos`       *)
(* (0 is None); a reference to a CloseApproach is its position in the list *)
(* `approaches`.                                                           *)
(***************************************************************************)
EXTENDS Integers, Sequences, FiniteSets, TLC

\* --------------------------------------------------------------- bounds
MaxNeos == 2
MaxApproaches == 2
MaxFilters == 2

\* ---------------------------------------------------------------- strings
None == <<>>
Some(s) == <<s>>

\* str.lower() on one character of the alphabet used here
LowerChar(c) ==
  CASE c = "A" -> "a"
    [] c = "B" -> "b"
    [] c = "G" -> "g"
    [] c = "O" -> "o"
    [] OTHER -> c

\* str.lower()
Lower(s) == [i \in 1..Len(s) |-> LowerChar(s[i])]

\* all sequences over S of length lo..hi
SeqsOf(S, lo, hi) == UNION {[1..n -> S] : n \in lo..hi}

\* ------------------------------------------------------------ input data
NeoDesignations == {<<"a", "1">>, <<"A", "1">>, <<"b">>}
ApproachDesignations == {<<"A", "1">>, <<"b">>}
NeoNames == {None, Some(<<>>), Some(<<"G", "o">>), Some(<<"g", "O">>)}
DesignationArgs == {<<"a", "1">>, <<"A", "1">>, <<"B">>, <<"z">>}
NameArgs == {None, Some(<<>>), Some(<<"g", "o">>), Some(<<"G", "o">>), Some(<<"z">>)}
Diameters == {1, 2, 3}
Distances == {1, 2}
Velocities == {1, 2}
Dates == {1, 2}

\* an unlinked NearEarthObject, as load_neos returns it
UnlinkedNeo(des, name, diam) ==
  [designation |-> des, name |-> name, diameter |-> diam, approaches |-> <<>>]

\* an unlinked CloseApproach, as load_approaches returns it
UnlinkedApproach(des, date, dist, vel) ==
  [designation |-> des, date |-> date, distance |-> dist, velocity |-> vel, neo |-> 0]

VARIABLES
  neos,                 \* self._neos: the NearEarthObjects (shared with the caller)
  approaches,           \* self._approaches: the CloseApproaches (shared with the caller)
  date_to_approaches,   \* self._date_to_approaches
  db,                   \* "absent" | "returned": does the caller hold an instance
  error,                \* "none" or the exception type the constructor raised
  raisedAt,             \* position of the approach at which it was raised, or 0
  sortedViews,          \* the three attributes __post__init__ sets: <<>> while unset
  ret,                  \* the last lookup: [op, arg, val]
  streams               \* the generators the caller holds

vars == <<neos, approaches, date_to_approaches, db, error, raisedAt, sortedViews, ret, streams>>

Streams == {1, 2}
\* a generator slot of the caller: filters and pos are the generator's frame (the
\* argument and the position of the for loop), done is its exhaustion; nexts, out
\* and log record what the consumer and the predicates saw: the number of next()
\* calls, the approaches yielded, the predicate calls [approach, filter, result]
NoStream == [active |-> FALSE, filters |-> <<>>, pos |-> 0, done |-> FALSE,
             nexts |-> 0, out |-> <<>>, log |-> <<>>]
NoRet == [op |-> "none", arg |-> <<>>, val |-> 0]

\* the state every specification starts from, given the two input lists
Start(ns, as) ==
  /\ neos = ns
  /\ approaches = as
  /\ date_to_approaches = [d \in Dates |-> <<>>]
  /\ db = "absent"
  /\ error = "none"
  /\ raisedAt = 0
  /\ sortedViews = <<>>
  /\ ret = NoRet
  /\ streams = [s \in Streams |-> NoStream]

\* ---------------------------------------------------------------- lookups
\* next((x for x in xs if ...), None) over the matching positions S: the first, or 0
FirstOf(S) == IF S = {} THEN 0 ELSE CHOOSE i \in S : \A j \in S : i <= j

\* a faulty variant of get_neo_by_designation: the last match instead of the first
get_neo_by_designation_last(ns, designation) ==
  LET S == {i \in 1..Len(ns) : Lower(ns[i].designation) = Lower(designation)}
  IN IF S = {} THEN 0 ELSE CHOOSE i \in S : \A j \in S : i >= j

get_neo_by_designation(ns, designation) ==
  FirstOf({i \in 1..Len(ns) : Lower(ns[i].designation) = Lower(designation)})

\* a faulty variant of get_neo_by_name: no guard on None and ""
get_neo_by_name_noguard(ns, name) ==
  FirstOf({i \in 1..Len(ns) :
             IF ns[i].name = None \/ name = None THEN ns[i].name = name
             ELSE Lower(ns[i].name[1]) = Lower(name[1])})

get_neo_by_name(ns, name) ==
  IF name = None \/ name = Some(<<>>) THEN 0
  ELSE FirstOf({i \in 1..Len(ns) :
                  ns[i].name # None /\ Lower(ns[i].name[1]) = Lower(name[1])})

\* ----------------------------------------------------------- construction
\* the exception type __init__ raises
RaisedError == "ValueError"

\* a faulty variant of LinkApproach: the back-reference is not appended
LinkApproachNoAppend(ns, n, i) == ns

\* approach.neo.approaches.append(approach)
LinkApproach(ns, n, i) == [ns EXCEPT ![n].approaches = Append(@, i)]

\* a faulty variant of Link: an approach without NEO is skipped instead of raising
RECURSIVE LinkSkipping(_, _, _, _)
LinkSkipping(i, ns, as, idx) ==
  IF i > Len(as)
    THEN [neos |-> ns, approaches |-> as, index |-> idx, raisedAt |-> 0]
    ELSE LET n == get_neo_by_designation(ns, as[i].designation)
             as1 == [as EXCEPT ![i].neo = n]
         IN IF n = 0
              THEN LinkSkipping(i + 1, ns, as1, idx)
              ELSE LinkSkipping(i + 1, LinkApproach(ns, n, i), as1,
                                [idx EXCEPT ![as[i].date] = Append(@, i)])

\* the loop of __init__ from approach i on; raisedAt # 0 when it raised
RECURSIVE Link(_, _, _, _)
Link(i, ns, as, idx) ==
  IF i > Len(as)
    THEN [neos |-> ns, approaches |-> as, index |-> idx, raisedAt |-> 0]
    ELSE LET n == get_neo_by_designation(ns, as[i].designation)
             as1 == [as EXCEPT ![i].neo = n]
         IN IF n = 0
              THEN [neos |-> ns, approaches |-> as1, index |-> idx, raisedAt |-> i]
              ELSE Link(i + 1, LinkApproach(ns, n, i), as1,
                        [idx EXCEPT ![as[i].date] = Append(@, i)])

\* NEODatabase(neos, approaches)
Construct ==
  /\ db = "absent" /\ error = "none"
  /\ LET r == Link(1, neos, approaches, date_to_approaches)
     IN /\ neos' = r.neos
        /\ approaches' = r.approaches
        /\ date_to_approaches' = r.index
        /\ raisedAt' = r.raisedAt
        /\ error' = IF r.raisedAt = 0 THEN "none" ELSE RaisedError
        /\ db' = IF r.raisedAt = 0 THEN "returned" ELSE "absent"
  /\ UNCHANGED <<sortedViews, ret, streams>>

\* db.get_neo_by_designation(d)
GetNeoByDesignation ==
  /\ db = "returned"
  /\ \E d \in DesignationArgs :
       ret' = [op |-> "designation", arg |-> d, val |-> get_neo_by_designation(neos, d)]
  /\ UNCHANGED <<neos, approaches, date_to_approaches, db, error, raisedAt, sortedViews, streams>>

\* db.get_neo_by_name(q)
GetNeoByName ==
  /\ db = "returned"
  /\ \E q \in NameArgs :
       ret' = [op |-> "name", arg |-> q, val |-> get_neo_by_name(neos, q)]
  /\ UNCHANGED <<neos, approaches, date_to_approaches, db, error, raisedAt, sortedViews, streams>>

\* ------------------------------------------------------------ orderings
\* sorted(xs, key=...): a stable ascending sort; key is a function on the elements
RECURSIVE InsertSorted(_, _, _)
InsertSorted(x, xs, key) ==
  IF xs = <<>> THEN <<x>>
  ELSE IF key[x] < key[Head(xs)] THEN <<x>> \o xs
  ELSE <<Head(xs)>> \o InsertSorted(x, Tail(xs), key)

RECURSIVE SortedFrom(_, _, _)
SortedFrom(i, xs, key) ==
  IF i = 0 THEN <<>> ELSE InsertSorted(xs[i], SortedFrom(i - 1, xs, key), key)

sorted(xs, key) == SortedFrom(Len(xs), xs, key)

Positions(xs) == [i \in 1..Len(xs) |-> i]

\* db.__post__init__(): nothing in the class calls it
PostInit ==
  /\ db = "returned"
  /\ sortedViews' =
       Some([approaches_distance_sorted |->
               sorted(Positions(approaches), [i \in 1..Len(approaches) |-> approaches[i].distance]),
             approaches_velocity_sorted |->
               sorted(Positions(approaches), [i \in 1..Len(approaches) |-> approaches[i].velocity]),
             neos_diameter_sorted |->
               sorted(Positions(neos), [i \in 1..Len(neos) |-> neos[i].diameter])])
  /\ UNCHANGED <<neos, approaches, date_to_approaches, db, error, raisedAt, ret, streams>>

\* ------------------------------------------------------------------ query
\* the predicates a caller supplies: total, pure functions of one approach
Preds == {"P1", "P2"}
Pred(p, a) == IF p = "P1" THEN a.distance < 2 ELSE a.velocity > 1

\* a faulty variant of AllFrom: all([f(approach) for f in filters]), every filter is called
RECURSIVE AllFromEager(_, _, _, _)
AllFromEager(j, i, fs, as) ==
  IF j > Len(fs) THEN [calls |-> <<>>, pass |-> TRUE]
  ELSE LET r == Pred(fs[j], as[i])
           rest == AllFromEager(j + 1, i, fs, as)
       IN [calls |-> <<[approach |-> i, filter |-> j, result |-> r]>> \o rest.calls,
           pass |-> r /\ rest.pass]

\* a faulty variant of AllFrom: any(...) instead of all(...)
RECURSIVE AnyFrom(_, _, _, _)
AnyFrom(j, i, fs, as) ==
  IF j > Len(fs) THEN [calls |-> <<>>, pass |-> FALSE]
  ELSE LET r == Pred(fs[j], as[i])
           call == <<[approach |-> i, filter |-> j, result |-> r]>>
       IN IF r THEN [calls |-> call, pass |-> TRUE]
          ELSE LET rest == AnyFrom(j + 1, i, fs, as)
               IN [calls |-> call \o rest.calls, pass |-> rest.pass]

\* all(f(approach) for f in filters) from filter j on, for the approach at i:
\* the calls it makes and its value
RECURSIVE AllFrom(_, _, _, _)
AllFrom(j, i, fs, as) ==
  IF j > Len(fs) THEN [calls |-> <<>>, pass |-> TRUE]
  ELSE LET r == Pred(fs[j], as[i])
           call == <<[approach |-> i, filter |-> j, result |-> r]>>
       IN IF ~r THEN [calls |-> call, pass |-> FALSE]
          ELSE LET rest == AllFrom(j + 1, i, fs, as)
               IN [calls |-> call \o rest.calls, pass |-> rest.pass]

\* the for loop of query from the approach at i on, up to the next yield or the end
RECURSIVE Advance(_, _, _, _)
Advance(i, fs, as, log) ==
  IF i > Len(as) THEN [pos |-> Len(as), yielded |-> 0, log |-> log]
  ELSE LET r == AllFrom(1, i, fs, as)
       IN IF r.pass THEN [pos |-> i, yielded |-> i, log |-> log \o r.calls]
          ELSE Advance(i + 1, fs, as, log \o r.calls)

\* next(gen) on a generator that is not exhausted
Resume(st, as) ==
  LET r == Advance(st.pos + 1, st.filters, as, st.log)
  IN [st EXCEPT !.pos = r.pos,
                !.done = (r.yielded = 0),
                !.nexts = @ + 1,
                !.out = IF r.yielded = 0 THEN @ ELSE Append(@, r.yielded),
                !.log = r.log]

\* list(gen): next() until the generator is exhausted
RECURSIVE Consume(_, _)
Consume(st, as) == IF st.done THEN st ELSE Consume(Resume(st, as), as)

\* the frame of a generator whose body has not started
Fresh(fs) ==
  [active |-> TRUE, filters |-> fs, pos |-> 0, done |-> FALSE, nexts |-> 0, out |-> <<>>,
   log |-> <<>>]

\* a faulty variant of NewStream: the predicates are run over the whole list when query is called
NewStreamEager(fs, as) == [Fresh(fs) EXCEPT !.log = Consume(Fresh(fs), as).log]

\* db.query(fs): a generator object, none of its body has run
NewStream(fs, as) == Fresh(fs)

\* a faulty variant of StepStream: the generators share one cursor over the approaches
StepStreamShared(ss, s, as) ==
  LET st == Resume(ss[s], as)
  IN [t \in DOMAIN ss |-> IF t = s THEN st
                          ELSE IF ss[t].active /\ ~ss[t].done
                                 THEN [ss[t] EXCEPT !.pos = st.pos]
                                 ELSE ss[t]]

\* the caller's generators after next() on generator s: only its own frame moves
StepStream(ss, s, as) == [ss EXCEPT ![s] = Resume(ss[s], as)]

\* gen = db.query(fs), kept in slot s
Query ==
  /\ db = "returned"
  /\ \E s \in Streams, fs \in SeqsOf(Preds, 0, MaxFilters) :
       streams' = [streams EXCEPT ![s] = NewStream(fs, approaches)]
  /\ UNCHANGED <<neos, approaches, date_to_approaches, db, error, raisedAt, sortedViews, ret>>

\* next(gen) on the generator in slot s
NextItem ==
  /\ db = "returned"
  /\ \E s \in Streams :
       /\ streams[s].active /\ ~streams[s].done
       /\ streams' = StepStream(streams, s, approaches)
  /\ UNCHANGED <<neos, approaches, date_to_approaches, db, error, raisedAt, sortedViews, ret>>

\* ------------------------------------------- linking and lookup: Spec
Init ==
  \E ns \in SeqsOf(NeoDesignations \X NeoNames, 0, MaxNeos),
     as \in SeqsOf(ApproachDesignations, 0, MaxApproaches) :
    Start([i \in 1..Len(ns) |-> UnlinkedNeo(ns[i][1], ns[i][2], 1)],
          [i \in 1..Len(as) |-> UnlinkedApproach(as[i], 1, 1, 1)])

Next == Construct \/ GetNeoByDesignation \/ GetNeoByName

Spec == Init /\ [][Next]_vars

\* ------------------------------------------------- orderings: SpecSort
InitSort ==
  \E ns \in SeqsOf(Diameters, 0, MaxNeos),
     as \in SeqsOf(Dates \X Distances \X Velocities, 0, MaxApproaches) :
    Start([i \in 1..Len(ns) |-> UnlinkedNeo(<<"b">>, None, ns[i])],
          [i \in 1..Len(as) |-> UnlinkedApproach(<<"b">>, as[i][1], as[i][2], as[i][3])])

NextSort == Construct \/ PostInit

SpecSort == InitSort /\ [][NextSort]_vars

\* ---------------------------------------------------- query: SpecQuery
InitQuery ==
  \E as \in SeqsOf(Distances \X Velocities, 0, MaxApproaches) :
    Start(<<UnlinkedNeo(<<"b">>, None, 1)>>,
          [i \in 1..Len(as) |-> UnlinkedApproach(<<"b">>, 1, as[i][1], as[i][2])])

NextQuery == Construct \/ Query \/ NextItem

SpecQuery == InitQuery /\ [][NextQuery]_vars

\* ===================================================================== claims
Count(xs, x) == Cardinality({k \in DOMAIN xs : xs[k] = x})
Range(xs) == {xs[k] : k \in DOMAIN xs}
Min(a, b) == IF a < b THEN a ELSE b

\* the NEOs whose designation equals d up to letter case
SameDesignation(d) == {n \in 1..Len(neos) : Lower(neos[n].designation) = Lower(d)}

\* the approaches whose designation key matches no NEO
Unresolvable == {i \in 1..Len(approaches) : SameDesignation(approaches[i].designation) = {}}

\* C1: after a successful construction every approach has a NEO whose designation
\* equals its key up to letter case, that NEO's approaches hold it exactly once,
\* and no other NEO's approaches hold it.
ThmC1 ==
  db = "returned" =>
    \A i \in 1..Len(approaches) :
      LET n == approaches[i].neo
      IN /\ n \in 1..Len(neos)
         /\ Lower(neos[n].designation) = Lower(approaches[i].designation)
         /\ Count(neos[n].approaches, i) = 1
         /\ \A m \in 1..Len(neos) : m # n => Count(neos[m].approaches, i) = 0

WitC1 ==
  /\ db = "returned"
  /\ Len(approaches) >= 2
  /\ \E i \in 1..Len(approaches) :
       /\ approaches[i].neo # 0
       /\ neos[approaches[i].neo].designation # approaches[i].designation
  /\ \E n \in 1..Len(neos) : Len(neos[n].approaches) >= 2

\* C2 as stated: when some approach's key matches no NEO, construction fails with
\* LinkageError at the first such approach and no instance is returned.
OrigC2 ==
  (Unresolvable # {} /\ (db = "returned" \/ error # "none")) =>
    /\ error = "LinkageError"
    /\ raisedAt = FirstOf(Unresolvable)
    /\ db = "absent"

\* C2 as amended: when some approach's key matches no NEO, construction fails with
\* ValueError at the first such approach and no instance is returned.
ThmC2 ==
  (Unresolvable # {} /\ (db = "returned" \/ error # "none")) =>
    /\ error = "ValueError"
    /\ raisedAt = FirstOf(Unresolvable)
    /\ db = "absent"

WitC2 ==
  /\ error = "ValueError"
  /\ db = "absent"
  /\ raisedAt = 2
  /\ approaches[1].neo # 0

\* C3: after a failed construction every NEO's approaches are still empty and every
\* approach's neo is still absent.
OrigC3 ==
  error # "none" =>
    /\ \A n \in 1..Len(neos) : neos[n].approaches = <<>>
    /\ \A i \in 1..Len(approaches) : approaches[i].neo = 0

Matches(fs) ==
  {i \in 1..Len(approaches) : \A j \in 1..Len(fs) : Pred(fs[j], approaches[i])}

\* what list(db.query(fs)) is
Listed(fs) == Consume(NewStream(fs, approaches), approaches).out

\* C6: a fully consumed query yields exactly the approaches every predicate accepts,
\* each once, in storage order; all approaches for no filter; and query((P, Q))
\* yields the approaches that query((P,)) and query((Q,)) both yield.
ThmC6 ==
  /\ \A s \in Streams :
       (streams[s].active /\ streams[s].done) =>
         LET out == streams[s].out
         IN /\ Range(out) = Matches(streams[s].filters)
            /\ \A k \in 1..(Len(out) - 1) : out[k] < out[k + 1]
            /\ streams[s].filters = <<>> => out = Positions(approaches)
  /\ db = "returned" =>
       \A p \in Preds, q \in Preds :
         Range(Listed(<<p, q>>)) = Range(Listed(<<p>>)) \cap Range(Listed(<<q>>))

WitC6 ==
  \E s \in Streams :
    /\ streams[s].active /\ streams[s].done
    /\ Len(streams[s].filters) = 2
    /\ streams[s].filters[1] # streams[s].filters[2]
    /\ streams[s].out # <<>>
    /\ Len(streams[s].out) < Len(approaches)

\* C7: whatever the interleaving of the next() calls on two generators, after k calls
\* each has yielded the first k elements of what it yields when consumed alone (all
\* of them, and is exhausted, once k exceeds their number).
ThmC7 ==
  \A s \in Streams :
    streams[s].active =>
      LET alone == Listed(streams[s].filters)
      IN /\ streams[s].out = SubSeq(alone, 1, Min(streams[s].nexts, Len(alone)))
         /\ streams[s].done <=> streams[s].nexts > Len(alone)

WitC7 ==
  /\ \A s \in Streams : streams[s].active /\ ~streams[s].done /\ streams[s].nexts >= 1
  /\ \E s \in Streams, u \in Streams :
       /\ streams[s].pos < streams[u].pos
       /\ streams[s].filters # streams[u].filters
       /\ streams[s].pos < Len(approaches)

\* C9: for each approach the predicates are called in the order supplied, starting
\* with the first, each at most once, and none after one returned false.
ThmC9 ==
  \A s \in Streams :
    LET log == streams[s].log
    IN \A k \in 1..Len(log) :
         /\ log[k].filter \in 1..Len(streams[s].filters)
         /\ log[k].result = Pred(streams[s].filters[log[k].filter], approaches[log[k].approach])
         /\ \A h \in 1..(k - 1) :
              log[h].approach = log[k].approach =>
                log[h].filter < log[k].filter /\ log[h].result
         /\ log[k].filter > 1 =>
              /\ k > 1
              /\ log[k - 1].approach = log[k].approach
              /\ log[k - 1].filter = log[k].filter - 1

WitC9 ==
  \E s \in Streams :
    LET log == streams[s].log
    IN /\ Len(streams[s].filters) = 2
       /\ \E k \in 1..Len(log) : log[k].filter = 1 /\ ~log[k].result
       /\ \E k \in 1..Len(log) : log[k].filter = 2

\* C10: calling query runs no predicate, and when a result is handed over (or the
\* end is reported) no predicate has been called on an approach stored after it.
ThmC10 ==
  \A s \in Streams :
    /\ streams[s].nexts = 0 => streams[s].log = <<>>
    /\ streams[s].out # <<>> /\ ~streams[s].done =>
         streams[s].pos = streams[s].out[Len(streams[s].out)]
    /\ \A k \in 1..Len(streams[s].log) : streams[s].log[k].approach <= streams[s].pos

WitC10 ==
  \E s \in Streams :
    /\ streams[s].active /\ ~streams[s].done
    /\ streams[s].filters # <<>>
    /\ Len(streams[s].out) = 1
    /\ streams[s].pos < Len(approaches)
    /\ \E i \in Matches(streams[s].filters) : i > streams[s].pos

IsSortedBy(xs, key) == \A k \in 1..(Len(xs) - 1) : key[xs[k]] <= key[xs[k + 1]]
IsPermutation(xs, n) == Len(xs) = n /\ Range(xs) = 1..n

\* C8: in every state after a successful construction the instance holds the
\* approaches sorted by distance, the approaches sorted by velocity and the NEOs
\* sorted by diameter.
OrigC8 ==
  db = "returned" =>
    /\ sortedViews # <<>>
    /\ LET v == sortedViews[1]
       IN /\ IsPermutation(v.approaches_distance_sorted, Len(approaches))
          /\ IsSortedBy(v.approaches_distance_sorted,
                        [i \in 1..Len(approaches) |-> approaches[i].distance])
          /\ IsPermutation(v.approaches_velocity_sorted, Len(approaches))
          /\ IsSortedBy(v.approaches_velocity_sorted,
                        [i \in 1..Len(approaches) |-> approaches[i].velocity])
          /\ IsPermutation(v.neos_diameter_sorted, Len(neos))
          /\ IsSortedBy(v.neos_diameter_sorted,
                        [i \in 1..Len(neos) |-> neos[i].diameter])

====
